---- MODULE Spec2Model ----
(***************************************************************************)
(* RDF literals of sophia_term (term/src/literal.rs): construction,        *)
(* ownership transforms, equality, hashing and the NTriples writers.       *)
(*                                                                         *)
(* A `str` / `&[u8]` is a sequence of bytes (0..255) holding valid UTF-8.  *)
(* Rust indexes from 0 and TLA+ from 1: byte `pos` of the code is          *)
(* txt[pos + 1] here.                                                      *)
(***************************************************************************)
EXTENDS Integers, Sequences, FiniteSets

VARIABLES lits, wfmt, wio, hst, ret

vars == <<lits, wfmt, wio, hst, ret>>

----------------------------------------------------------------------------
(* Bounds of the model.                                                    *)

\* longest lexical text (in characters) given to the writers
MaxLen == 3
\* longest lexical text (in characters) of the literals that are compared
MaxEqLen == 1
\* longest lexical text (in characters) of the literals that are transformed
MaxMapLen == 2
\* capacity (in bytes) of the bounded sink, the one that can fail
SinkCap == 2

----------------------------------------------------------------------------
(* Bytes.                                                                  *)

LF == 10
CR == 13
QUOTE == 34
BACKSLASH == 92
NUL == 0
LetterN == 110
LetterR == 114
AT == 64
CARET == 94
HYPHEN == 45

\* the characters the model draws texts from: a, ", \, \n, \r and U+00E9
\* (two bytes in UTF-8), each as its UTF-8 encoding
Chars == { <<97>>, <<QUOTE>>, <<BACKSLASH>>, <<LF>>, <<CR>>, <<195, 169>> }
EqChars == { <<97>>, <<65>>, <<195, 169>> }

RECURSIVE TextsUpTo(_, _)
TextsUpTo(cs, n) ==
    IF n = 0 THEN { <<>> }
    ELSE LET shorter == TextsUpTo(cs, n - 1)
         IN  shorter \cup { t \o c : t \in shorter, c \in cs }

hello == <<104, 101, 108, 108, 111>>
bonjour == <<98, 111, 110, 106, 111, 117, 114>>

Texts == TextsUpTo(Chars, MaxLen) \cup { hello, bonjour }
EqTexts == TextsUpTo(EqChars, MaxEqLen)
MapTexts == TextsUpTo(Chars, MaxMapLen) \cup { <<116, 101, 115, 116>> }

is_ascii(s) == \A i \in 1..Len(s) : s[i] < 128

\* u8::to_ascii_lowercase / to_ascii_uppercase, byte by byte
to_ascii_lowercase(s) ==
    [i \in 1..Len(s) |-> IF s[i] >= 65 /\ s[i] <= 90 THEN s[i] + 32 ELSE s[i]]
to_ascii_uppercase(s) ==
    [i \in 1..Len(s) |-> IF s[i] >= 97 /\ s[i] <= 122 THEN s[i] - 32 ELSE s[i]]

eq_ignore_ascii_case(s, t) == to_ascii_lowercase(s) = to_ascii_lowercase(t)

----------------------------------------------------------------------------
(* Text storage (TermData).  A stored text is its bytes and the            *)
(* representation holding them: Box<str>, &str, String, or one of the two  *)
(* variants of MownStr.                                                    *)

TD(s, repr) == [str |-> s, repr |-> repr]

\* TD::from(&str) for the storage type td: MownStr::from(&str) borrows
From_str(td, s) == TD(s, IF td = "Mown" THEN "MownRef" ELSE td)

\* MownStr::from(String) owns
From_String(s) == TD(s, "MownOwn")

as_ref(t) == t.str

\* Option<T>
None == <<>>
Some(x) == <<x>>
is_some(o) == o # None
unwrap(o) == o[1]

----------------------------------------------------------------------------
(* The IRI abstraction (crate::iri) and the namespace constants            *)
(* (crate::ns), which the literal consumes.                                *)

XSD_NS == <<104, 116, 116, 112, 58, 47, 47, 119, 119, 119, 46, 119, 51, 46,
            111, 114, 103, 47, 50, 48, 48, 49, 47, 88, 77, 76, 83, 99, 104,
            101, 109, 97, 35>>
RDF_NS == <<104, 116, 116, 112, 58, 47, 47, 119, 119, 119, 46, 119, 51, 46,
            111, 114, 103, 47, 49, 57, 57, 57, 47, 48, 50, 47, 50, 50, 45,
            114, 100, 102, 45, 115, 121, 110, 116, 97, 120, 45, 110, 115, 35>>

Iri(ns, suffix) == [ns |-> ns, suffix |-> suffix]

\* Iri::new_suffixed / Iri::new over the storage type td
Iri_new_suffixed(td, ns, sf) == Iri(From_str(td, ns), Some(From_str(td, sf)))
Iri_new(td, s) == Iri(From_str(td, s), None)

\* the full text of an IRI: namespace, then suffix
Iri_value(i) ==
    as_ref(i.ns) \o (IF is_some(i.suffix) THEN as_ref(unwrap(i.suffix)) ELSE <<>>)

\* xsd::string, xsd::integer, rdf::langString
xsd_string(td) == Iri_new_suffixed(td, XSD_NS, <<115, 116, 114, 105, 110, 103>>)
xsd_integer(td) == Iri_new_suffixed(td, XSD_NS, <<105, 110, 116, 101, 103, 101, 114>>)
rdf_langString(td) ==
    Iri_new_suffixed(td, RDF_NS, <<108, 97, 110, 103, 83, 116, 114, 105, 110, 103>>)

\* IRIs are equal when their full texts are, however they are split
Iri_eq(i, j) == Iri_value(i) = Iri_value(j)

\* Iri::hash: the bytes an IRI feeds the hasher
Iri_hash(h, i) == h \o Iri_value(i)

\* Iri::write_fmt / Iri::write_io: <, the full text, >
Iri_write(i) == <<60>> \o Iri_value(i) \o <<62>>

\* the datatype IRIs the model constructs literals with
Iris(td) ==
    { xsd_string(td),
      Iri_new(td, Iri_value(xsd_string(td))),
      xsd_integer(td),
      rdf_langString(td),
      Iri_new_suffixed(td, XSD_NS, <<83, 84, 82, 73, 78, 71>>),
      Iri_new_suffixed(td, <<115, 111, 109, 101, 47, 105, 114, 105, 47>>,
                           <<101, 120, 97, 109, 112, 108, 101>>) }

----------------------------------------------------------------------------
(* Language tags (the BCP47 validator of the language_tag crate).          *)

tag_fr == <<102, 114>>
tag_en == <<101, 110>>
tag_EN == <<69, 78>>
tag_en_US == <<101, 110, 45, 85, 83>>
tag_bad == <<110, 111, 116, 32, 97, 32, 116, 97, 103, 33, 33>>

Tags == { tag_fr, tag_en, tag_EN, tag_en_US, tag_bad, <<>> }

is_alpha(b) == (b >= 65 /\ b <= 90) \/ (b >= 97 /\ b <= 122)
is_alnum(b) == is_alpha(b) \/ (b >= 48 /\ b <= 57)

\* the subtags of a tag: the maximal runs between hyphens
RECURSIVE subtags(_)
subtags(s) ==
    IF \A i \in 1..Len(s) : s[i] # HYPHEN THEN <<s>>
    ELSE LET k == CHOOSE i \in 1..Len(s) :
                      s[i] = HYPHEN /\ \A j \in 1..(i - 1) : s[j] # HYPHEN
         IN  <<SubSeq(s, 1, k - 1)>> \o subtags(SubSeq(s, k + 1, Len(s)))

\* the grammar: a primary subtag of 1 to 8 letters, then subtags of 1 to 8
\* letters or digits
is_langtag(s) ==
    LET st == subtags(s)
    IN  /\ Len(st[1]) >= 1 /\ Len(st[1]) <= 8
        /\ \A i \in 1..Len(st[1]) : is_alpha(st[1][i])
        /\ \A k \in 2..Len(st) :
              /\ Len(st[k]) >= 1 /\ Len(st[k]) <= 8
              /\ \A i \in 1..Len(st[k]) : is_alnum(st[k][i])

\* tag.parse::<LangTag>(): Ok, or Err with the validator's error
parse_LangTag(s) ==
    IF is_langtag(s) THEN [ok |-> TRUE]
    ELSE [ok |-> FALSE, err |-> [kind |-> "ValidationError", input |-> s]]

----------------------------------------------------------------------------
(* Literal<TD> { txt: TD, kind: Kind<TD> }                                 *)

Lang(tag) == [k |-> "Lang", tag |-> tag]
Dt(iri) == [k |-> "Dt", iri |-> iri]
Literal(t, kind) == [txt |-> t, kind |-> kind]

\* Result<Literal>, and a panic
Ok(l) == [res |-> "Ok", lit |-> l]
Err_InvalidLanguageTag(tag, err) ==
    [res |-> "InvalidLanguageTag", tag |-> tag, err |-> err]
Panicked == [res |-> "panic"]

\* a constructor that stores the tag lowercased
new_lang_lowercased(td, t, tag) ==
    IF ~parse_LangTag(tag).ok
    THEN Err_InvalidLanguageTag(tag, parse_LangTag(tag).err)
    ELSE Ok(Literal(From_str(td, t), Lang(From_str(td, to_ascii_lowercase(tag)))))

new_lang(td, t, tag) ==
    IF ~parse_LangTag(tag).ok
    THEN Err_InvalidLanguageTag(tag, parse_LangTag(tag).err)
    ELSE Ok(Literal(From_str(td, t), Lang(From_str(td, tag))))

\* dt.map_into(): every stored part of the IRI converted into TD
Iri_map_into(td, i) ==
    Iri(From_str(td, as_ref(i.ns)),
        IF is_some(i.suffix) THEN Some(From_str(td, as_ref(unwrap(i.suffix))))
        ELSE None)

new_dt(td, t, iri) == Literal(From_str(td, t), Dt(Iri_map_into(td, iri)))

\* debug_assert! is compiled in debug builds only
new_lang_unchecked(td, t, tag, debug) ==
    IF debug /\ ~parse_LangTag(tag).ok
    THEN Panicked
    ELSE Ok(Literal(From_str(td, t), Lang(From_str(td, tag))))

txt(l) == l.txt

dt(l) ==
    IF l.kind.k = "Lang" THEN rdf_langString("Str")
    ELSE Iri_map_into("Str", l.kind.iri)

lang(l) == IF l.kind.k = "Lang" THEN Some(l.kind.tag) ELSE None

----------------------------------------------------------------------------
(* Sinks.  fmt::Write and io::Write: a buffer, and a capacity beyond which *)
(* a write fails (-1: none, as for String and Vec<u8>).                    *)

Unlimited == -1
Sink(limit) == [buf |-> <<>>, limit |-> limit]

\* the state of a writer: its sink, and Ok, Err (the sink failed), or how it
\* panicked; calls lists the length of the text each call of the escaper got
Writer(limit) == [w |-> Sink(limit), res |-> "Ok", calls |-> <<>>]

\* w.write_str(s)? / w.write_all(s)? : nothing more is written after an error
write_str(st, s) ==
    IF st.res # "Ok" THEN st
    ELSE IF st.w.limit >= 0 /\ Len(st.w.buf) + Len(s) > st.w.limit
    THEN [st EXCEPT !.res = "Err"]
    ELSE [st EXCEPT !.w.buf = @ \o s]

panic(st, how) == IF st.res # "Ok" THEN st ELSE [st EXCEPT !.res = how]

----------------------------------------------------------------------------
(* The escapers.                                                           *)

\* str::is_char_boundary(i): the start, the end, or no continuation byte
is_char_boundary(s, i) ==
    \/ i = 0
    \/ i = Len(s)
    \/ i > 0 /\ i < Len(s) /\ ~(s[i + 1] >= 128 /\ s[i + 1] < 192)

\* the width of the UTF-8 sequence a lead byte starts
utf8_width(b) == IF b < 128 THEN 1 ELSE IF b < 224 THEN 2 ELSE IF b < 240 THEN 3 ELSE 4

\* the scalar value of the character at byte pos
utf8_char(s, pos) ==
    LET b == s[pos + 1]
        c(k) == s[pos + 1 + k] - 128
    IN  CASE utf8_width(b) = 1 -> b
          [] utf8_width(b) = 2 -> (b - 192) * 64 + c(1)
          [] utf8_width(b) = 3 -> (b - 224) * 4096 + c(1) * 64 + c(2)
          [] OTHER -> (b - 240) * 262144 + c(1) * 4096 + c(2) * 64 + c(3)

\* txt.chars().enumerate(): positions that count characters, not bytes
RECURSIVE utf8_chars(_, _)
utf8_chars(s, pos) ==
    IF pos >= Len(s) THEN <<>>
    ELSE <<utf8_char(s, pos)>> \o utf8_chars(s, pos + utf8_width(s[pos + 1]))
chars_enumerate(s, pos) ==
    LET cs == utf8_chars(s, pos)
    IN  [i \in 1..Len(cs) |-> [pos |-> pos + i - 1, chr |-> cs[i]]]

\* txt.char_indices(): (byte position, character) pairs from byte pos on
RECURSIVE char_indices(_, _)
char_indices(s, pos) ==
    IF pos >= Len(s) THEN <<>>
    ELSE <<[pos |-> pos, chr |-> utf8_char(s, pos)]>>
         \o char_indices(s, pos + utf8_width(s[pos + 1]))

\* an enumeration that counts from 1
bytes_enumerate_from_1(s) == [i \in 1..Len(s) |-> [pos |-> i, chr |-> s[i]]]

\* txt.iter().enumerate(): (position, byte) pairs
bytes_enumerate(s) == [i \in 1..Len(s) |-> [pos |-> i - 1, chr |-> s[i]]]

\* a test that forgets the carriage return
needs_escape_no_cr(chr) ==
    chr <= BACKSLASH /\ (chr = LF \/ chr = BACKSLASH \/ chr = QUOTE)

needs_escape(chr) ==
    chr <= BACKSLASH /\ (chr = LF \/ chr = CR \/ chr = BACKSLASH \/ chr = QUOTE)

\* the for loop of both escapers: cut and cutchar at the first item to escape,
\* the length of the text and NUL when there is none
find_cut(items, len) ==
    LET hits == { i \in 1..Len(items) : needs_escape(items[i].chr) }
    IN  IF hits = {} THEN [cut |-> len, cutchar |-> NUL]
        ELSE LET i == CHOOSE i \in hits : \A j \in hits : i <= j
             IN  [cut |-> items[i].pos, cutchar |-> items[i].chr]

\* a match whose arms for \n and \r are swapped
write_escape_swapped(st, cutchar) ==
    CASE cutchar = LF -> write_str(st, <<BACKSLASH, LetterR>>)
      [] cutchar = CR -> write_str(st, <<BACKSLASH, LetterN>>)
      [] cutchar = QUOTE -> write_str(st, <<BACKSLASH, QUOTE>>)
      [] cutchar = BACKSLASH -> write_str(st, <<BACKSLASH, BACKSLASH>>)
      [] OTHER -> panic(st, "unreachable")

\* the match on cutchar
write_escape(st, cutchar) ==
    CASE cutchar = LF -> write_str(st, <<BACKSLASH, LetterN>>)
      [] cutchar = CR -> write_str(st, <<BACKSLASH, LetterR>>)
      [] cutchar = QUOTE -> write_str(st, <<BACKSLASH, QUOTE>>)
      [] cutchar = BACKSLASH -> write_str(st, <<BACKSLASH, BACKSLASH>>)
      [] OTHER -> panic(st, "unreachable")

\* &txt[from..to] of a str: panics off a character boundary or out of range
str_slice_ok(s, from, to) ==
    from <= to /\ to <= Len(s) /\ is_char_boundary(s, from) /\ is_char_boundary(s, to)

\* &txt[from..to] of a byte slice: panics out of range
bytes_slice_ok(s, from, to) == from <= to /\ to <= Len(s)

\* the call stack is finite: a recursion deeper than the length of the text it
\* started on accounts for does not return
StackLimit(len) == len + 2

RECURSIVE fmt_quoted_string(_, _)
fmt_quoted_string(st0, s) ==
    LET st  == [st0 EXCEPT !.calls = Append(@, Len(s))]
        c   == find_cut(char_indices(s, 0), Len(s))
        cut == c.cut
    IN  IF st.res # "Ok" THEN st
        ELSE IF Len(st.calls) > StackLimit(st.calls[1]) THEN panic(st, "overflow")
        ELSE IF ~str_slice_ok(s, 0, cut) THEN panic(st, "slice")
        ELSE LET st1 == write_str(st, SubSeq(s, 1, cut))
                 st2 == IF cut < Len(s) THEN write_escape(st1, c.cutchar) ELSE st1
             IN  IF st2.res # "Ok" THEN st2
                 ELSE IF cut + 1 >= Len(s) THEN st2
                 ELSE IF ~str_slice_ok(s, cut + 1, Len(s)) THEN panic(st2, "slice")
                 ELSE fmt_quoted_string(st2, SubSeq(s, cut + 2, Len(s)))

RECURSIVE io_quoted_string(_, _)
io_quoted_string(st0, s) ==
    LET st  == [st0 EXCEPT !.calls = Append(@, Len(s))]
        c   == find_cut(bytes_enumerate(s), Len(s))
        cut == c.cut
    IN  IF st.res # "Ok" THEN st
        ELSE IF Len(st.calls) > StackLimit(st.calls[1]) THEN panic(st, "overflow")
        ELSE IF ~bytes_slice_ok(s, 0, cut) THEN panic(st, "slice")
        ELSE LET st1 == write_str(st, SubSeq(s, 1, cut))
                 st2 == IF cut < Len(s) THEN write_escape(st1, c.cutchar) ELSE st1
             IN  IF st2.res # "Ok" THEN st2
                 ELSE IF cut + 1 >= Len(s) THEN st2
                 ELSE IF ~bytes_slice_ok(s, cut + 1, Len(s)) THEN panic(st2, "slice")
                 ELSE io_quoted_string(st2, SubSeq(s, cut + 2, Len(s)))

----------------------------------------------------------------------------
(* Literal::write_fmt and Literal::write_io                                *)

\* a writer that does not elide xsd:string
write_suffix_no_elision(st, l) ==
    IF l.kind.k = "Lang"
    THEN write_str(write_str(st, <<QUOTE, AT>>), as_ref(l.kind.tag))
    ELSE write_str(write_str(st, <<QUOTE, CARET, CARET>>), Iri_write(l.kind.iri))

write_suffix(st, l) ==
    IF l.kind.k = "Lang"
    THEN write_str(write_str(st, <<QUOTE, AT>>), as_ref(l.kind.tag))
    ELSE IF ~Iri_eq(xsd_string("Str"), l.kind.iri)
    THEN write_str(write_str(st, <<QUOTE, CARET, CARET>>), Iri_write(l.kind.iri))
    ELSE write_str(st, <<QUOTE>>)

write_fmt(l, limit) ==
    LET st1 == write_str(Writer(limit), <<QUOTE>>)
        st2 == fmt_quoted_string(st1, as_ref(l.txt))
    IN  write_suffix(st2, l)

write_io(l, limit) ==
    LET st1 == write_str(Writer(limit), <<QUOTE>>)
        st2 == io_quoted_string(st1, as_ref(l.txt))
    IN  write_suffix(st2, l)

----------------------------------------------------------------------------
(* Equality and hashing.                                                   *)

\* a comparison of tags that minds their case
Kind_eq_exact_tags(sk, ok) ==
    CASE sk.k = "Lang" /\ ok.k = "Lang" -> as_ref(sk.tag) = as_ref(ok.tag)
      [] sk.k = "Dt" /\ ok.k = "Dt" -> Iri_eq(sk.iri, ok.iri)
      [] OTHER -> FALSE

Kind_eq(sk, ok) ==
    CASE sk.k = "Lang" /\ ok.k = "Lang" ->
             eq_ignore_ascii_case(as_ref(sk.tag), as_ref(ok.tag))
      [] sk.k = "Dt" /\ ok.k = "Dt" -> Iri_eq(sk.iri, ok.iri)
      [] OTHER -> FALSE

Literal_eq(a, b) == as_ref(a.txt) = as_ref(b.txt) /\ Kind_eq(a.kind, b.kind)

\* Hasher::write: the hasher's state is the bytes it was fed, in order
Hasher_write(state, bytes) == state \o bytes

\* a hash of the tag as stored
Literal_hash_tag_verbatim(state, l) ==
    LET h == Hasher_write(state, as_ref(l.txt))
    IN  IF l.kind.k = "Lang" THEN Hasher_write(h, as_ref(l.kind.tag))
        ELSE Iri_hash(h, l.kind.iri)

Literal_hash(state, l) ==
    LET h == Hasher_write(state, as_ref(l.txt))
    IN  IF l.kind.k = "Lang"
        THEN Hasher_write(h, to_ascii_lowercase(as_ref(l.kind.tag)))
        ELSE Iri_hash(h, l.kind.iri)

----------------------------------------------------------------------------
(* Ownership transforms.  A transform is named; calling it returns the     *)
(* new stored text, and every call is logged with the text it was given.   *)

Transforms == {"to_ascii_uppercase", "Into::into"}

\* f(x): s.to_ascii_uppercase() is a String; Into::into is MownStr::from(&str)
apply(f, s) ==
    IF f = "to_ascii_uppercase" THEN TD(to_ascii_uppercase(s), "String")
    ELSE From_str("Mown", s)

\* Iri::map and Iri::clone_map: f on the namespace, then on the suffix if any
Iri_map(i, f) ==
    [iri   |-> Iri(apply(f, as_ref(i.ns)),
                   IF is_some(i.suffix) THEN Some(apply(f, as_ref(unwrap(i.suffix))))
                   ELSE None),
     calls |-> <<as_ref(i.ns)>>
               \o (IF is_some(i.suffix) THEN <<as_ref(unwrap(i.suffix))>> ELSE <<>>)]

\* a map that moves the tag over without calling f on it
map_tag_untouched(l, f) ==
    IF l.kind.k = "Lang"
    THEN [lit   |-> Literal(apply(f, as_ref(l.txt)), Lang(l.kind.tag)),
          calls |-> <<as_ref(l.txt)>>]
    ELSE LET m == Iri_map(l.kind.iri, f)
         IN  [lit   |-> Literal(apply(f, as_ref(l.txt)), Dt(m.iri)),
              calls |-> <<as_ref(l.txt)>> \o m.calls]

map(l, f) ==
    IF l.kind.k = "Lang"
    THEN [lit   |-> Literal(apply(f, as_ref(l.txt)), Lang(apply(f, as_ref(l.kind.tag)))),
          calls |-> <<as_ref(l.txt), as_ref(l.kind.tag)>>]
    ELSE LET m == Iri_map(l.kind.iri, f)
         IN  [lit   |-> Literal(apply(f, as_ref(l.txt)), Dt(m.iri)),
              calls |-> <<as_ref(l.txt)>> \o m.calls]

clone_map(l, factory) ==
    IF l.kind.k = "Lang"
    THEN [lit   |-> Literal(apply(factory, as_ref(l.txt)),
                            Lang(apply(factory, as_ref(l.kind.tag)))),
          calls |-> <<as_ref(l.txt), as_ref(l.kind.tag)>>]
    ELSE LET m == Iri_map(l.kind.iri, factory)
         IN  [lit   |-> Literal(apply(factory, as_ref(l.txt)), Dt(m.iri)),
              calls |-> <<as_ref(l.txt)>> \o m.calls]

clone_into(l) == clone_map(l, "Into::into").lit

Policies == {"NoSuffix", "LastHashOrSlash"}

\* the number of bytes up to and including the last # or / of s (0: none)
last_hash_or_slash(s) ==
    LET hits == { i \in 1..Len(s) : s[i] = 35 \/ s[i] = 47 }
    IN  IF hits = {} THEN 0 ELSE CHOOSE i \in hits : \A j \in hits : j <= i

\* Iri::normalized: a part that is a piece of one stored part is borrowed, a
\* part that joins pieces of both is allocated
Iri_normalized(i, policy) ==
    LET v  == Iri_value(i)
        n  == Len(as_ref(i.ns))
        p  == IF policy = "NoSuffix" THEN Len(v) ELSE last_hash_or_slash(v)
        ns == SubSeq(v, 1, p)
        sf == SubSeq(v, p + 1, Len(v))
    IN  Iri(IF p <= n \/ ~is_some(i.suffix) THEN From_str("Mown", ns)
            ELSE From_String(ns),
            IF sf = <<>> THEN None
            ELSE IF p >= n \/ ~is_some(i.suffix) THEN Some(From_str("Mown", sf))
            ELSE Some(From_String(sf)))

\* a normalized that copies the text
normalized_copying(l, policy) ==
    Literal(From_String(as_ref(l.txt)),
            IF l.kind.k = "Lang" THEN Lang(From_str("Mown", as_ref(l.kind.tag)))
            ELSE Dt(Iri_normalized(l.kind.iri, policy)))

normalized(l, policy) ==
    Literal(From_str("Mown", as_ref(l.txt)),
            IF l.kind.k = "Lang" THEN Lang(From_str("Mown", as_ref(l.kind.tag)))
            ELSE Dt(Iri_normalized(l.kind.iri, policy)))

----------------------------------------------------------------------------
(* State: the two literals at hand (None before construction), the two     *)
(* writers, the two hashers, and what the last call returned.              *)

Slots == {"a", "b"}
Fresh == [res |-> "fresh"]
NoRet == [op |-> "none"]
SinkLimits == {Unlimited, SinkCap}

CtorOps == {"new_lang", "new_dt", "new_lang_unchecked"}

\* a literal is constructed into an empty slot, before anything else is called;
\* an error returned by a constructor, or its panic, ends the run
CanConstruct(slot) ==
    /\ lits[slot] = None
    /\ ret = NoRet \/ (ret.op \in CtorOps /\ ret.r.res = "Ok")

Init ==
    /\ lits = [s \in Slots |-> None]
    /\ wfmt = Fresh
    /\ wio = Fresh
    /\ hst = [s \in Slots |-> Fresh]
    /\ ret = NoRet

\* the inputs of a constructor are drawn from T (texts), Tags and Iris
NewLang(slot, td, T) ==
    /\ CanConstruct(slot)
    /\ \E t \in T, tag \in Tags :
          LET r == new_lang(td, t, tag)
          IN  /\ ret' = [op |-> "new_lang", slot |-> slot, txt |-> t, tag |-> tag,
                         r |-> r]
              /\ lits' = IF r.res = "Ok" THEN [lits EXCEPT ![slot] = Some(r.lit)]
                         ELSE lits
    /\ UNCHANGED <<wfmt, wio, hst>>

NewDt(slot, td, T) ==
    /\ CanConstruct(slot)
    /\ \E t \in T, iri \in Iris("Str") :
          LET l == new_dt(td, t, iri)
          IN  /\ ret' = [op |-> "new_dt", slot |-> slot, txt |-> t, iri |-> iri,
                         r |-> Ok(l)]
              /\ lits' = [lits EXCEPT ![slot] = Some(l)]
    /\ UNCHANGED <<wfmt, wio, hst>>

NewLangUnchecked(slot, td, T) ==
    /\ CanConstruct(slot)
    /\ \E t \in T, tag \in Tags, debug \in BOOLEAN :
          LET r == new_lang_unchecked(td, t, tag, debug)
          IN  /\ ret' = [op |-> "new_lang_unchecked", slot |-> slot, txt |-> t,
                         tag |-> tag, r |-> r]
              /\ lits' = IF r.res = "Ok" THEN [lits EXCEPT ![slot] = Some(r.lit)]
                         ELSE lits
    /\ UNCHANGED <<wfmt, wio, hst>>

WriteFmt(limit) ==
    /\ is_some(lits["a"])
    /\ wfmt = Fresh
    /\ wfmt' = write_fmt(unwrap(lits["a"]), limit)
    /\ UNCHANGED <<lits, wio, hst, ret>>

WriteIo(limit) ==
    /\ is_some(lits["a"])
    /\ wio = Fresh
    /\ wio' = write_io(unwrap(lits["a"]), limit)
    /\ UNCHANGED <<lits, wfmt, hst, ret>>

\* the escapers applied to a text and a fresh sink
FmtQuotedString(T) ==
    /\ ret = NoRet
    /\ \E t \in T, limit \in SinkLimits :
          ret' = [op |-> "fmt_quoted_string", txt |-> t,
                  st |-> fmt_quoted_string(Writer(limit), t)]
    /\ UNCHANGED <<lits, wfmt, wio, hst>>

IoQuotedString(T) ==
    /\ ret = NoRet
    /\ \E t \in T, limit \in SinkLimits :
          ret' = [op |-> "io_quoted_string", txt |-> t,
                  st |-> io_quoted_string(Writer(limit), t)]
    /\ UNCHANGED <<lits, wfmt, wio, hst>>

\* a == b and b == a
Eq ==
    /\ is_some(lits["a"]) /\ is_some(lits["b"])
    /\ ret.op \in CtorOps
    /\ ret' = [op |-> "eq",
               ab |-> Literal_eq(unwrap(lits["a"]), unwrap(lits["b"])),
               ba |-> Literal_eq(unwrap(lits["b"]), unwrap(lits["a"]))]
    /\ UNCHANGED <<lits, wfmt, wio, hst>>

\* the literal of a slot hashed into a new hasher
Hash(slot) ==
    /\ is_some(lits[slot])
    /\ hst[slot] = Fresh
    /\ hst' = [hst EXCEPT ![slot] =
                  [res |-> "Ok", data |-> Literal_hash(<<>>, unwrap(lits[slot]))]]
    /\ UNCHANGED <<lits, wfmt, wio, ret>>

\* map takes the literal by value: it is gone afterwards, unless its storage
\* type is Copy (&str)
Map(f) ==
    /\ is_some(lits["a"])
    /\ ret.op \in CtorOps
    /\ LET l == unwrap(lits["a"])
           m == map(l, f)
       IN  /\ ret' = [op |-> "map", self |-> l, f |-> f, out |-> m.lit,
                      calls |-> m.calls]
           /\ lits' = IF l.txt.repr = "Str" THEN lits
                      ELSE [lits EXCEPT !["a"] = None]
    /\ UNCHANGED <<wfmt, wio, hst>>

CloneMap(f) ==
    /\ is_some(lits["a"])
    /\ ret.op \in CtorOps
    /\ LET l == unwrap(lits["a"])
           m == clone_map(l, f)
       IN  ret' = [op |-> "clone_map", self |-> l, f |-> f, out |-> m.lit,
                   calls |-> m.calls]
    /\ UNCHANGED <<lits, wfmt, wio, hst>>

CloneInto ==
    /\ is_some(lits["a"])
    /\ ret.op \in CtorOps
    /\ LET l == unwrap(lits["a"])
       IN  ret' = [op |-> "clone_into", self |-> l, out |-> clone_into(l)]
    /\ UNCHANGED <<lits, wfmt, wio, hst>>

Normalized(policy) ==
    /\ is_some(lits["a"])
    /\ ret.op \in CtorOps
    /\ LET l == unwrap(lits["a"])
       IN  ret' = [op |-> "normalized", self |-> l, policy |-> policy,
                   out |-> normalized(l, policy)]
    /\ UNCHANGED <<lits, wfmt, wio, hst>>

Next ==
    \/ NewLang("a", "Box", Texts)
    \/ NewDt("a", "Box", Texts)
    \/ NewLangUnchecked("a", "Box", Texts)
    \/ \E limit \in SinkLimits : WriteFmt(limit)
    \/ \E limit \in SinkLimits : WriteIo(limit)
    \/ FmtQuotedString(Texts)
    \/ IoQuotedString(Texts)

Spec == Init /\ [][Next]_vars

\* two literals, of different storage types, compared and hashed
NextEq ==
    \/ NewLang("a", "Box", EqTexts)
    \/ NewDt("a", "Box", EqTexts)
    \/ NewLang("b", "Str", EqTexts)
    \/ NewDt("b", "Str", EqTexts)
    \/ Eq
    \/ Hash("a")
    \/ Hash("b")

SpecEq == Init /\ [][NextEq]_vars

\* one literal, transformed
NextMap ==
    \/ NewLang("a", "Box", MapTexts)
    \/ NewDt("a", "Box", MapTexts)
    \/ NewDt("a", "Str", MapTexts)
    \/ NewLangUnchecked("a", "Str", MapTexts)
    \/ \E f \in Transforms : Map(f)
    \/ \E f \in Transforms : CloneMap(f)
    \/ CloneInto
    \/ \E policy \in Policies : Normalized(policy)

SpecMap == Init /\ [][NextMap]_vars

----------------------------------------------------------------------------
(* The escaping the writers are checked against, character by character.   *)

RECURSIVE RefEscape(_)
RefEscape(s) ==
    IF s = <<>> THEN <<>>
    ELSE LET w    == utf8_width(s[1])
             rest == RefEscape(SubSeq(s, w + 1, Len(s)))
         IN  CASE s[1] = LF -> <<BACKSLASH, LetterN>> \o rest
               [] s[1] = CR -> <<BACKSLASH, LetterR>> \o rest
               [] s[1] = QUOTE -> <<BACKSLASH, QUOTE>> \o rest
               [] s[1] = BACKSLASH -> <<BACKSLASH, BACKSLASH>> \o rest
               [] OTHER -> SubSeq(s, 1, w) \o rest

\* reading an escaped text back: a backslash and the byte after it are one
\* escape; a bare ", \n or \r, an unknown escape or a lone backslash is an error
RECURSIVE Unescape(_)
Unescape(s) ==
    IF s = <<>> THEN [ok |-> TRUE, out |-> <<>>]
    ELSE IF s[1] = BACKSLASH
    THEN IF Len(s) < 2 \/ s[2] \notin {LetterN, LetterR, QUOTE, BACKSLASH}
         THEN [ok |-> FALSE, out |-> <<>>]
         ELSE LET r == Unescape(SubSeq(s, 3, Len(s)))
                  c == CASE s[2] = LetterN -> LF
                         [] s[2] = LetterR -> CR
                         [] OTHER -> s[2]
              IN  [ok |-> r.ok, out |-> <<c>> \o r.out]
    ELSE IF s[1] \in {QUOTE, LF, CR} THEN [ok |-> FALSE, out |-> <<>>]
    ELSE LET r == Unescape(SubSeq(s, 2, Len(s)))
         IN  [ok |-> r.ok, out |-> <<s[1]>> \o r.out]

NumEscapable(s) == Cardinality({ i \in 1..Len(s) : s[i] \in {LF, CR, QUOTE, BACKSLASH} })

Wrote(st) == st.res # "fresh"
LitA == unwrap(lits["a"])
IsXsdString(l) == l.kind.k = "Dt" /\ Iri_value(l.kind.iri) = Iri_value(xsd_string("Str"))

ExpectedSuffix(l) ==
    IF l.kind.k = "Lang" THEN <<AT>> \o as_ref(l.kind.tag)
    ELSE IF IsXsdString(l) THEN <<>>
    ELSE <<CARET, CARET>> \o Iri_write(l.kind.iri)

Expected(l) == <<QUOTE>> \o RefEscape(as_ref(l.txt)) \o <<QUOTE>> \o ExpectedSuffix(l)

Examples(buf, l) ==
    /\ (as_ref(l.txt) = hello /\ l.kind = Dt(xsd_string("Box")))
          => buf = <<34, 104, 101, 108, 108, 111, 34>>
    /\ (as_ref(l.txt) = hello /\ l.kind = Dt(xsd_integer("Box")))
          => buf = <<34, 104, 101, 108, 108, 111, 34, 94, 94, 60>> \o XSD_NS
                   \o <<105, 110, 116, 101, 103, 101, 114, 62>>
    /\ (as_ref(l.txt) = bonjour /\ l.kind = Lang(From_str("Box", tag_fr)))
          => buf = <<34, 98, 111, 110, 106, 111, 117, 114, 34, 64, 102, 114>>
    /\ (as_ref(l.txt) = <<>> /\ l.kind = Dt(xsd_string("Box")))
          => buf = <<34, 34>>

SerializedAsSpecified(st) ==
    (Wrote(st) /\ st.w.limit = Unlimited)
        => /\ st.res = "Ok"
           /\ st.w.buf = Expected(LitA)
           /\ Examples(st.w.buf, LitA)

\* C1: write_fmt and write_io on a sink that takes everything emit ", the
\* escaped text, ", and then @tag verbatim for a language-tagged literal,
\* nothing for xsd:string, ^^ and the IRI's serialized form otherwise; the four
\* examples of the specification come out byte for byte.
C1_Serialization == SerializedAsSpecified(wfmt) /\ SerializedAsSpecified(wio)

\* a language-tagged literal with an upper-case tag was written by both writers
C1_Witness ==
    /\ Wrote(wfmt) /\ Wrote(wio)
    /\ wfmt.w.limit = Unlimited /\ wio.w.limit = Unlimited
    /\ LitA.kind.k = "Lang" /\ as_ref(LitA.kind.tag) = tag_EN
    /\ NumEscapable(as_ref(LitA.txt)) > 0

\* C2: on a sink that takes everything, fmt_quoted_string writes the
\* character-by-character escape of its text: \n, \r, " and \ become their
\* two-character escapes, everything else is copied, in order.
C2_EscapeMatchesReference ==
    (ret.op = "fmt_quoted_string" /\ ret.st.w.limit = Unlimited)
        => ret.st.res = "Ok" /\ ret.st.w.buf = RefEscape(ret.txt)

\* a text of two adjacent escapable characters, \r first, was escaped
C2_Witness ==
    /\ ret.op = "fmt_quoted_string" /\ ret.st.w.limit = Unlimited
    /\ ret.txt = <<CR, QUOTE, 195, 169>>

\* C3: the text between the quotes that write_fmt writes for an xsd:string
\* literal reads back, escape by escape, as the lexical text, and holds no bare
\* ", \n or \r.
C3_RoundTrip ==
    (Wrote(wfmt) /\ wfmt.w.limit = Unlimited /\ IsXsdString(LitA))
        => LET buf == wfmt.w.buf
               un  == Unescape(SubSeq(buf, 2, Len(buf) - 1))
           IN  /\ Len(buf) >= 2 /\ buf[1] = QUOTE /\ buf[Len(buf)] = QUOTE
               /\ un.ok
               /\ un.out = as_ref(LitA.txt)

\* an xsd:string literal holding \n, \ and " was written
C3_Witness ==
    /\ Wrote(wfmt) /\ wfmt.w.limit = Unlimited /\ IsXsdString(LitA)
    /\ as_ref(LitA.txt) = <<LF, BACKSLASH, QUOTE>>

\* C6: new_lang returns InvalidLanguageTag with the tag it was given and the
\* validator's error, and no literal, when the tag is not valid; otherwise a Lang literal whose lang() is
\* the tag as given, whose txt() is the text as given and whose dt() is
\* rdf:langString.  It never panics.
C6_NewLang ==
    ret.op = "new_lang"
        => /\ ret.r.res # "panic"
           /\ IF ~is_langtag(ret.tag)
              THEN /\ ret.r.res = "InvalidLanguageTag"
                   /\ ret.r.tag = ret.tag
                   /\ ret.r.err = parse_LangTag(ret.tag).err
                   /\ lits[ret.slot] = None
              ELSE /\ ret.r.res = "Ok"
                   /\ lits[ret.slot] = Some(ret.r.lit)
                   /\ ret.r.lit.kind.k = "Lang"
                   /\ is_some(lang(ret.r.lit))
                   /\ as_ref(unwrap(lang(ret.r.lit))) = ret.tag
                   /\ as_ref(txt(ret.r.lit)) = ret.txt
                   /\ Iri_eq(dt(ret.r.lit), rdf_langString("Str"))

\* new_lang accepted the mixed-case tag en-US
C6_Witness ==
    /\ ret.op = "new_lang" /\ ret.tag = tag_en_US /\ ret.r.res = "Ok"
    /\ is_some(lits[ret.slot])

\* C7: for an ASCII text and sinks of the same capacity, write_io and
\* write_fmt end alike and leave the same bytes.
C7_WritersAgree ==
    (Wrote(wfmt) /\ Wrote(wio) /\ wfmt.w.limit = wio.w.limit
       /\ is_ascii(as_ref(LitA.txt)))
        => wfmt.w.buf = wio.w.buf /\ wfmt.res = wio.res

\* both writers wrote an ASCII text with an escape in the middle, typed xsd:integer
C7_Witness ==
    /\ Wrote(wfmt) /\ Wrote(wio)
    /\ wfmt.w.limit = Unlimited /\ wio.w.limit = Unlimited
    /\ as_ref(LitA.txt) = <<97, BACKSLASH, 97>>
    /\ LitA.kind = Dt(xsd_integer("Box"))

StrictlyShorter(calls) == \A i \in 1..(Len(calls) - 1) : calls[i + 1] < calls[i]

\* C10: on a sink that takes everything both escapers return Ok, each call
\* gets a strictly shorter text than the one before, and there is at most one
\* call per escapable character plus one; on no sink does an escaper or a
\* writer panic (unreachable!, a slice out of bounds or off a character
\* boundary) or fail to return.
C10_EscapersReturn ==
    /\ ret.op \in {"fmt_quoted_string", "io_quoted_string"}
          => /\ ret.st.res \in {"Ok", "Err"}
             /\ ret.st.w.limit = Unlimited => ret.st.res = "Ok"
             /\ StrictlyShorter(ret.st.calls)
             /\ Len(ret.st.calls) <= NumEscapable(ret.txt) + 1
    /\ Wrote(wfmt) => wfmt.res \in {"Ok", "Err"} /\ StrictlyShorter(wfmt.calls)
    /\ Wrote(wio) => wio.res \in {"Ok", "Err"} /\ StrictlyShorter(wio.calls)

\* fmt_quoted_string returned from its second call, on a text whose escapable
\* character stands between two two-byte characters
C10_Witness ==
    /\ ret.op = "fmt_quoted_string" /\ ret.st.res = "Ok"
    /\ ret.txt = <<195, 169, LF, 195, 169>>
    /\ ret.st.calls = <<5, 2>>


LitB == unwrap(lits["b"])

\* what the specification says of two kinds
KindsMatch(a, b) ==
    \/ /\ a.kind.k = "Lang" /\ b.kind.k = "Lang"
       /\ to_ascii_lowercase(a.kind.tag.str) = to_ascii_lowercase(b.kind.tag.str)
    \/ /\ a.kind.k = "Dt" /\ b.kind.k = "Dt"
       /\ Iri_value(a.kind.iri) = Iri_value(b.kind.iri)

SameText(a, b) == a.txt.str = b.txt.str

\* C4: a == b exactly when the texts are the same bytes and the kinds match:
\* two tags that are equal ignoring ASCII case, or two IRIs that are equal; a
\* Lang kind matches no Datatype kind, not even rdf:langString, which dt()
\* returns for both.  Tags en and EN match, en and fr do not, IRIs differing in
\* case do not.
C4_Equality ==
    ret.op = "eq"
        => /\ ret.ab = (SameText(LitA, LitB) /\ KindsMatch(LitA, LitB))
           /\ ret.ba = ret.ab
           /\ (LitA.kind.k # LitB.kind.k) => ~ret.ab
           /\ (SameText(LitA, LitB) /\ LitA.kind.k = "Lang" /\ LitB.kind.k = "Dt"
                 /\ Iri_value(LitB.kind.iri) = Iri_value(rdf_langString("Str")))
                 => Iri_eq(dt(LitA), dt(LitB)) /\ ~ret.ab
           /\ (SameText(LitA, LitB) /\ LitA.kind.k = "Lang" /\ LitB.kind.k = "Lang")
                 => /\ (LitA.kind.tag.str = tag_en /\ LitB.kind.tag.str = tag_EN)
                          => ret.ab
                    /\ (LitA.kind.tag.str = tag_en /\ LitB.kind.tag.str = tag_fr)
                          => ~ret.ab
           /\ (LitA.kind.k = "Dt" /\ LitB.kind.k = "Dt"
                 /\ Iri_value(LitA.kind.iri) # Iri_value(LitB.kind.iri))
                 => ~ret.ab

\* a literal tagged en was compared with one of the same text tagged EN
C4_Witness ==
    /\ ret.op = "eq" /\ ret.ab
    /\ LitA.kind.k = "Lang" /\ LitB.kind.k = "Lang"
    /\ LitA.kind.tag.str = tag_en /\ LitB.kind.tag.str = tag_EN
    /\ LitA.txt.str = <<195, 169>>

Hashed(slot) == hst[slot].res = "Ok"

HashedData(l) ==
    l.txt.str \o (IF l.kind.k = "Lang" THEN to_ascii_lowercase(l.kind.tag.str)
                  ELSE Iri_value(l.kind.iri))

\* C5: two literals that are equal feed their hashers the same bytes: the text
\* as it is, then the lowercased tag or what the IRI feeds.
C5_HashConsistent ==
    /\ Hashed("a") => hst["a"].data = HashedData(LitA)
    /\ Hashed("b") => hst["b"].data = HashedData(LitB)
    /\ (Hashed("a") /\ Hashed("b") /\ Literal_eq(LitA, LitB))
          => hst["a"].data = hst["b"].data

\* two equal literals whose tags differ in case were both hashed
C5_Witness ==
    /\ Hashed("a") /\ Hashed("b")
    /\ Literal_eq(LitA, LitB)
    /\ LitA.kind.k = "Lang" /\ LitA.kind.tag.str # LitB.kind.tag.str

CountIn(seq, x) == Cardinality({ i \in 1..Len(seq) : seq[i] = x })

RECURSIVE SumLen(_)
SumLen(seq) == IF seq = <<>> THEN 0 ELSE Len(seq[1]) + SumLen(Tail(seq))

\* the text-bearing fields of a literal
Fields(l) ==
    <<l.txt>> \o (IF l.kind.k = "Lang" THEN <<l.kind.tag>>
                  ELSE <<l.kind.iri.ns>> \o l.kind.iri.suffix)

FieldTexts(l) == [i \in 1..Len(Fields(l)) |-> Fields(l)[i].str]

\* C8: map and clone_map call the transform once on the text and once on each
\* other stored field (the tag, or the namespace and the suffix of the IRI)
\* and on nothing else: 2 calls for a language-tagged literal, 3 for an IRI
\* stored as namespace and suffix, the lengths of the arguments adding up to
\* those of the text and the tag or IRI; the result holds the transformed
\* fields and keeps its kind.
C8_TransformOncePerField ==
    ret.op \in {"map", "clone_map"}
        => LET l == ret.self
           IN  /\ Len(ret.calls) = Len(Fields(l))
               /\ \A x \in {ret.calls[i] : i \in 1..Len(ret.calls)}
                        \cup {FieldTexts(l)[i] : i \in 1..Len(Fields(l))} :
                      CountIn(ret.calls, x) = CountIn(FieldTexts(l), x)
               /\ l.kind.k = "Lang" => Len(ret.calls) = 2
               /\ (l.kind.k = "Dt" /\ is_some(l.kind.iri.suffix)) => Len(ret.calls) = 3
               /\ SumLen(ret.calls)
                      = Len(l.txt.str)
                        + (IF l.kind.k = "Lang" THEN Len(l.kind.tag.str)
                           ELSE Len(Iri_value(l.kind.iri)))
               /\ ret.out.kind.k = l.kind.k
               /\ \A i \in 1..Len(Fields(l)) :
                      Fields(ret.out)[i] = apply(ret.f, Fields(l)[i].str)

\* map upper-cased a language-tagged literal with a non-empty text
C8_Witness ==
    /\ ret.op = "map" /\ ret.f = "to_ascii_uppercase"
    /\ ret.self.kind.k = "Lang" /\ ret.self.kind.tag.str = tag_en_US
    /\ ret.self.txt.str = <<116, 101, 115, 116>>
    /\ ret.out.kind.tag.str = <<69, 78, 45, 85, 83>>

\* C9: clone_into (into MownStr) and normalized, under either policy, return
\* a literal whose text, and whose tag if it has one, is borrowed, with the
\* bytes of the source; clone_into borrows the parts of the IRI too; the source
\* literal is as it was.
C9_ZeroCopy ==
    ret.op \in {"clone_into", "normalized"}
        => /\ ret.out.txt = TD(ret.self.txt.str, "MownRef")
           /\ ret.self.kind.k = "Lang"
                 => ret.out.kind = Lang(TD(ret.self.kind.tag.str, "MownRef"))
           /\ ret.self.kind.k = "Dt"
                 => /\ ret.out.kind.k = "Dt"
                    /\ Iri_value(ret.out.kind.iri) = Iri_value(ret.self.kind.iri)
           /\ ret.op = "clone_into"
                 => \A i \in 1..Len(Fields(ret.out)) :
                       Fields(ret.out)[i].repr = "MownRef"
           /\ lits["a"] = Some(ret.self)

\* normalized joined the two parts of an IRI into an allocated text, and
\* still borrowed the lexical text from a Box<str>
C9_Witness ==
    /\ ret.op = "normalized" /\ ret.policy = "NoSuffix"
    /\ ret.self.txt = TD(<<97>>, "Box")
    /\ ret.self.kind.k = "Dt"
    /\ ret.out.kind.iri.ns.repr = "MownOwn"
    /\ ret.out.txt.repr = "MownRef"

====
